---- MODULE Spec2Model ----
(***************************************************************************)
(* A model of tike's distributed ADMM layer: tike.admm (src/tike/tike.py)  *)
(* run SPMD by mpi_size processes, and the MPICommunicator primitives      *)
(* (src/tike/communicator.py).                                             *)
(*                                                                         *)
(* Arrays are modelled by their leading (view) axis: a sequence with one   *)
(* entry per view. The numerical kernels tike.ptycho.reconstruct,          *)
(* tike.tomo.reconstruct and tike.tomo.forward are outside the repository  *)
(* files modelled here; they are pure functions of their arguments and     *)
(* are stood for by one of two pure stand-ins chosen at the start of a run *)
(* ("echo" returns its psi/obj argument, "grad" mixes its arguments).      *)
(* Collectives (scatter, bcast, gather, allgather) are barriers: one       *)
(* completes when every process has reached it.                            *)
(***************************************************************************)
EXTENDS Integers, Sequences, FiniteSets, TLC

\* ---------------------------------------------------------------- bounds
MaxProcs == 2
MaxViews == 3
MaxNiter == 2
MaxArgs == 2
MaxRows == 3
MaxCols == 3

\* ------------------------------------------------------------- constants
\* Python's None where the model holds a number (x = None, line 141).
None == -1
\* The value range of the kernel stand-ins.
ValMod == 3

VARIABLES
    mpi_size,   \* comm.Get_size()
    kernel,     \* which stand-in the external kernels are: "echo" | "grad"
    call,       \* call[p]: the arguments process p called admm with
    pc,         \* pc[p]: where process p stands in admm
    i,          \* i[p]: the loop variable of `for i in range(niter)`
    x, psi, data, theta, v, h, lamda, hobj, phi,
    probe, rho, gamma, voxelsize, energy,
    split,      \* split[p]: split_psi, split_data, split_theta, split_v, split_h
    ret,        \* ret[p]: what admm returned on p (None until then)
    err,        \* err[p]: the exception that ended admm on p ("" if none)
    log,        \* log[p]: the collective calls p has completed, in order
    ncalls,     \* ncalls[p]: kernel calls made by p: [ptycho, tomo, forward]
    history,    \* history[p]: the psi and hobj of each lamda update p made
    lastcall,   \* lastcall[p]: arguments and result of p's latest kernel calls
    \* --- MPICommunicator, run on its own by the same mpi_size processes
    method,     \* the method every process calls: "scatter" | "broadcast" |
                \* "reslice" (get_ptycho_slice, then get_tomo_slice of it)
    whole0,     \* reslice: the global array the parts were cut from
    args,       \* args[p]: the *args tuple (scatter, broadcast) or arg (reslice)
    cpc,        \* cpc[p]: where process p stands in the method
    recv,       \* recv[p]: what p's collective call returned
    cret,       \* cret[p]: what the method returned on p
    cerr        \* cerr[p]: the exception that ended the method on p

admmvars == <<kernel, call, pc, i, x, psi, data, theta, v, h, lamda,
              hobj, phi, probe, rho, gamma, voxelsize, energy, split, ret,
              err, log, ncalls, lastcall, history>>
commvars == <<method, whole0, args, cpc, recv, cret, cerr>>
vars == <<mpi_size, admmvars, commvars>>

Procs == 0 .. (mpi_size - 1)

Min(a, b) == IF a < b THEN a ELSE b

\* ------------------------------------------------------- np.array_split
\* The remainder given to the last sections instead of the first.
section_size_last(L, N, r) ==
    IF r >= N - (L % N) THEN (L \div N) + 1 ELSE L \div N

\* Length of section r (0-based) of an axis of length L cut in N sections:
\* the first L mod N sections get one element more.
section_size(L, N, r) == IF r < L % N THEN (L \div N) + 1 ELSE L \div N

\* div_points = cumsum([0] + section_sizes)
RECURSIVE div_points(_, _, _)
div_points(L, N, k) ==
    IF k = 0 THEN 0 ELSE div_points(L, N, k - 1) + section_size(L, N, k - 1)

\* np.array_split(ary, N) of a sequence: chunk r is ary[div[r]:div[r+1]].
array_split(ary, N) ==
    [r \in 0 .. (N - 1) |->
        SubSeq(ary, div_points(Len(ary), N, r) + 1,
                    div_points(Len(ary), N, r + 1))]

\* ------------------------------------------------------ kernel stand-ins
\* tike.ptycho.reconstruct(data, probe, v, h, psi, rho, gamma, reg, lamda)
ptycho_reconstruct(k, d, pr, vv, hh, ps, rh, ga, reg, lam) ==
    IF k = "echo" THEN ps
    ELSE (ps + d + pr + vv + hh + rh + ga + reg + lam) % ValMod

\* tike.tomo.reconstruct(obj, theta, line_integrals)
tomo_reconstruct(k, obj, th, li) ==
    IF k = "echo" THEN obj ELSE (obj + Len(th) + Len(li) + 1) % ValMod

\* exp(1j * wavenumber(energy) * tike.tomo.forward(obj, theta) * voxelsize),
\* one value per angle of theta.
forward_hobj(obj, th, en, vs) ==
    [n \in 1 .. Len(th) |-> (obj + th[n] + en + vs) % ValMod]

\* -1j / wavenumber(energy) * log(psi + lamda / rho) / voxelsize of one view:
\* the argument of the logarithm, NaN when rho = 0 (0 / 0).
phi_of(ps, lam, rh, en, vs) ==
    IF rh = 0 THEN [nan |-> TRUE, z |-> 0, energy |-> en, voxelsize |-> vs]
    ELSE [nan |-> FALSE, z |-> ps + (lam \div rh), energy |-> en,
          voxelsize |-> vs]

\* ------------------------------------------------------------------ Init
ones(n) == [k \in 1 .. n |-> 1]
zeros(n) == [k \in 1 .. n |-> 0]
arange(n) == [k \in 1 .. n |-> k]

NoSplit == [psi |-> <<>>, data |-> <<>>, theta |-> <<>>, v |-> <<>>, h |-> <<>>]
NoCall ==
    [gamma |-> None, rho |-> None, ntheta |-> None, nphi |-> None,
     x |-> None]

\* What a worker (rank > 0) passes for the parameters it does not own.
WorkerArgs(n) ==
    [obj |-> None, data |-> <<>>, theta |-> <<>>, v |-> <<>>, h |-> <<>>,
     probe |-> 0, energy |-> 0, voxelsize |-> 0, rho |-> 2, gamma |-> 0,
     niter |-> n]

\* A 2-D array: its shape and its rows.
empty_array == [nr |-> 0, nc |-> 0, rows |-> <<>>]

\* The communicator's variables while admm runs (admm does not use it).
CommIdle ==
    /\ method = "none"
    /\ whole0 = empty_array
    /\ args = [p \in Procs |-> <<>>]
    /\ cpc = [p \in Procs |-> "idle"]
    /\ recv = [p \in Procs |-> <<>>]
    /\ cret = [p \in Procs |-> <<>>]
    /\ cerr = [p \in Procs |-> ""]

\* The per-view arrays rank 0 is called with: theta has nt views, and at most
\* one of data, v, h (the one named odd) has one view more or less (nodd).
ViewCount(name, odd, nt, nodd) == IF name = odd THEN nodd ELSE nt

Init ==
    /\ mpi_size \in 1 .. MaxProcs
    /\ kernel \in {"echo", "grad"}
    /\ \E nt \in 0 .. MaxViews, nodd \in 0 .. MaxViews,
          odd \in {"none", "data", "v", "h"},
          n0 \in 0 .. MaxNiter, n1 \in 0 .. MaxNiter,
          r0 \in {0, 1}, g0 \in {1, 2} :
        /\ (mpi_size = 1) => (n1 = n0)
        /\ (odd = "none") <=> (nodd = nt)
        /\ nodd \in {nt - 1, nt, nt + 1}
        /\ call = [p \in Procs |->
                    IF p = 0
                    THEN [obj |-> 1,
                          data |-> arange(ViewCount("data", odd, nt, nodd)),
                          theta |-> arange(nt),
                          v |-> arange(ViewCount("v", odd, nt, nodd)),
                          h |-> arange(ViewCount("h", odd, nt, nodd)),
                          probe |-> 1, energy |-> 2, voxelsize |-> 1,
                          rho |-> r0, gamma |-> g0, niter |-> n0]
                    ELSE WorkerArgs(n1)]
    /\ pc = [p \in Procs |-> "INIT"]
    /\ i = [p \in Procs |-> 0]
    /\ x = [p \in Procs |-> None]
    /\ psi = [p \in Procs |-> <<>>]
    /\ data = [p \in Procs |-> call[p].data]
    /\ theta = [p \in Procs |-> call[p].theta]
    /\ v = [p \in Procs |-> call[p].v]
    /\ h = [p \in Procs |-> call[p].h]
    /\ lamda = [p \in Procs |-> <<>>]
    /\ hobj = [p \in Procs |-> <<>>]
    /\ phi = [p \in Procs |-> <<>>]
    /\ probe = [p \in Procs |-> call[p].probe]
    /\ rho = [p \in Procs |-> call[p].rho]
    /\ gamma = [p \in Procs |-> call[p].gamma]
    /\ voxelsize = [p \in Procs |-> call[p].voxelsize]
    /\ energy = [p \in Procs |-> call[p].energy]
    /\ split = [p \in Procs |-> NoSplit]
    /\ ret = [p \in Procs |-> None]
    /\ err = [p \in Procs |-> ""]
    /\ log = [p \in Procs |-> <<>>]
    /\ ncalls = [p \in Procs |-> [ptycho |-> 0, tomo |-> 0, forward |-> 0]]
    /\ lastcall = [p \in Procs |-> NoCall]
    /\ history = [p \in Procs |-> <<>>]
    /\ CommIdle

\* --------------------------------------------------------------- actions
\* psi with one row too many.
initial_psi_extra(th) == ones(Len(th) + 1)

\* Lines 127, 129: T = theta.size; psi = np.ones([T, Z, Y]).
initial_psi(th) == ones(Len(th))

\* x left None on rank 0 too.
initial_x_none(p) == None

\* Lines 128, 141: x = obj on rank 0, x = None on the others.
initial_x(p) == IF p = 0 THEN call[p].obj ELSE None

\* Lines 125-141: rank 0 builds psi and splits the arrays; the others set
\* their splits and x to None.
Split(p) ==
    /\ pc[p] = "INIT"
    /\ IF p = 0
       THEN /\ x' = [x EXCEPT ![p] = initial_x(p)]
            /\ psi' = [psi EXCEPT ![p] = initial_psi(theta[p])]
            /\ split' = [split EXCEPT ![p] =
                    [psi |-> array_split(psi'[p], mpi_size),
                     data |-> array_split(data[p], mpi_size),
                     theta |-> array_split(theta[p], mpi_size),
                     v |-> array_split(v[p], mpi_size),
                     h |-> array_split(h[p], mpi_size)]]
       ELSE /\ x' = [x EXCEPT ![p] = initial_x(p)]
            /\ split' = [split EXCEPT ![p] = NoSplit]
            /\ psi' = psi
    /\ pc' = [pc EXCEPT ![p] = "scatter"]
    /\ UNCHANGED <<mpi_size, commvars, history,
                   kernel, call, i, data, theta, v, h, lamda, hobj,
                   phi, probe, rho, gamma, voxelsize, energy, ret, err, log,
                   ncalls, lastcall>>

\* Lines 143-149: the five scatters from rank 0, then lamda and hobj.
Scatter ==
    /\ \A p \in Procs : pc[p] = "scatter"
    /\ psi' = [p \in Procs |-> split[0].psi[p]]
    /\ data' = [p \in Procs |-> split[0].data[p]]
    /\ theta' = [p \in Procs |-> split[0].theta[p]]
    /\ v' = [p \in Procs |-> split[0].v[p]]
    /\ h' = [p \in Procs |-> split[0].h[p]]
    /\ lamda' = [p \in Procs |-> zeros(Len(psi'[p]))]
    /\ hobj' = [p \in Procs |-> ones(Len(psi'[p]))]
    /\ log' = [p \in Procs |-> log[p] \o
                <<"scatter", "scatter", "scatter", "scatter", "scatter">>]
    /\ pc' = [p \in Procs |-> "bcast"]
    /\ UNCHANGED <<mpi_size, commvars, history,
                   kernel, call, i, x, phi, probe, rho, gamma,
                   voxelsize, energy, split, ret, err, ncalls, lastcall>>

\* Lines 151-155: the five broadcasts from rank 0. Line 153 broadcasts rho
\* (already the root's, from line 152) into gamma.
Bcast ==
    /\ \A p \in Procs : pc[p] = "bcast"
    /\ probe' = [p \in Procs |-> probe[0]]
    /\ rho' = [p \in Procs |-> rho[0]]
    /\ gamma' = [p \in Procs |-> rho'[0]]
    /\ voxelsize' = [p \in Procs |-> voxelsize[0]]
    /\ energy' = [p \in Procs |-> energy[0]]
    /\ log' = [p \in Procs |-> log[p] \o
                <<"bcast", "bcast", "bcast", "bcast", "bcast">>]
    /\ pc' = [p \in Procs |-> "SCATTERED"]
    /\ UNCHANGED <<mpi_size, commvars, history,
                   kernel, call, i, x, psi, data, theta, v, h,
                   lamda, hobj, phi, split, ret, err, ncalls, lastcall>>

\* The loop run once too often.
LoopHead_off_by_one(p, n) ==
    /\ i' = [i EXCEPT ![p] = n]
    /\ IF n <= call[p].niter
       THEN /\ pc' = [pc EXCEPT ![p] = "PTYCHO_STEP"]
            /\ ret' = ret
       ELSE /\ pc' = [pc EXCEPT ![p] = "DONE"]
            /\ ret' = [ret EXCEPT ![p] = x'[p]]

\* The loop run rank 0's niter times, as if niter had been broadcast.
LoopHead_root_niter(p, n) ==
    /\ i' = [i EXCEPT ![p] = n]
    /\ IF n < call[0].niter
       THEN /\ pc' = [pc EXCEPT ![p] = "PTYCHO_STEP"]
            /\ ret' = ret
       ELSE /\ pc' = [pc EXCEPT ![p] = "DONE"]
            /\ ret' = [ret EXCEPT ![p] = x'[p]]

\* The head of `for i in range(niter)` with i already set to n: the next
\* iteration, or line 196 (return x).
LoopHead(p, n) ==
    /\ i' = [i EXCEPT ![p] = n]
    /\ IF n < call[p].niter
       THEN /\ pc' = [pc EXCEPT ![p] = "PTYCHO_STEP"]
            /\ ret' = ret
       ELSE /\ pc' = [pc EXCEPT ![p] = "DONE"]
            /\ ret' = [ret EXCEPT ![p] = x'[p]]

\* Lines 157-159: setup is over; enter the loop or return.
Scattered(p) ==
    /\ pc[p] = "SCATTERED"
    /\ x' = x
    /\ LoopHead(p, 0)
    /\ UNCHANGED <<mpi_size, commvars, history,
                   kernel, call, psi, data, theta, v, h, lamda,
                   hobj, phi, probe, rho, gamma, voxelsize, energy, split,
                   err, log, ncalls, lastcall>>

\* The first view (1-based) of the loop of line 162 whose data[view], v[view]
\* or h[view] is out of range (IndexError), or 0 when every view is in range.
first_bad_view(p) ==
    LET short == Min(Len(data[p]), Min(Len(v[p]), Len(h[p])))
    IN  IF short < Len(psi[p]) THEN short + 1 ELSE 0

\* A view update that starts from the psi of the view numbered before it.
ptycho_view_neighbour(p, cur, n) ==
    [cur EXCEPT ![n] =
        ptycho_reconstruct(kernel, data[p][n], probe[p], v[p][n], h[p][n],
                           cur[IF n > 1 THEN n - 1 ELSE n], rho[p], gamma[p],
                           hobj[p][n], lamda[p][n])]

\* Lines 163-170 for one view: psi[view] = tike.ptycho.reconstruct(...) of
\* that view's data, v, h, psi, hobj and lamda, cur being the psi array as
\* the loop has left it so far.
ptycho_view(p, cur, n) ==
    [cur EXCEPT ![n] =
        ptycho_reconstruct(kernel, data[p][n], probe[p], v[p][n], h[p][n],
                           cur[n], rho[p], gamma[p], hobj[p][n],
                           lamda[p][n])]

\* The view loop of lines 162-170 run over the views of order, one after
\* the other.
RECURSIVE ptycho_views(_, _, _)
ptycho_views(p, cur, order) ==
    IF order = <<>> THEN cur
    ELSE ptycho_views(p, ptycho_view(p, cur, Head(order)), Tail(order))

\* Line 162: range(n), the views in the order the loop takes them.
view_range(n) == [k \in 1 .. n |-> k]

\* Lines 162-170: one ptychography update of every local view, in order.
\* Indexing data, v or h past its end raises IndexError out of admm.
PtychoStep(p) ==
    /\ pc[p] = "PTYCHO_STEP"
    /\ LET bad == first_bad_view(p)
           done == IF bad = 0 THEN Len(psi[p]) ELSE bad - 1
       IN  /\ psi' = [psi EXCEPT ![p] =
                    ptycho_views(p, psi[p], view_range(done))]
           /\ ncalls' = [ncalls EXCEPT ![p].ptycho = @ + done]
           /\ lastcall' = IF done > 0
                          THEN [lastcall EXCEPT ![p].gamma = gamma[p],
                                                ![p].rho = rho[p]]
                          ELSE lastcall
           /\ IF bad = 0
              THEN /\ pc' = [pc EXCEPT ![p] = "PHI"]
                   /\ err' = err
              ELSE /\ pc' = [pc EXCEPT ![p] = "RAISED"]
                   /\ err' = [err EXCEPT ![p] = "IndexError"]
    /\ UNCHANGED <<mpi_size, commvars, history,
                   kernel, call, i, x, data, theta, v, h, lamda,
                   hobj, phi, probe, rho, gamma, voxelsize, energy, split,
                   ret, log>>

\* Line 171: phi from psi and lamda / rho, elementwise.
PhiStep(p) ==
    /\ pc[p] = "PHI"
    /\ phi' = [phi EXCEPT ![p] =
                [n \in 1 .. Len(psi[p]) |->
                    phi_of(psi[p][n], lamda[p][n], rho[p], energy[p],
                           voxelsize[p])]]
    /\ pc' = [pc EXCEPT ![p] = "DUAL_TRANSPORT"]
    /\ UNCHANGED <<mpi_size, commvars, history,
                   kernel, call, i, x, psi, data, theta, v, h,
                   lamda, hobj, probe, rho, gamma, voxelsize, energy, split,
                   ret, err, log, ncalls, lastcall>>

\* A gather that also collects every rank's theta into rank 0's theta.
Gather_theta ==
    /\ \A p \in Procs : pc[p] = "DUAL_TRANSPORT"
    /\ phi' = [p \in Procs |->
                IF p = 0 THEN [r \in 1 .. mpi_size |-> phi[r - 1]] ELSE <<>>]
    /\ theta' = [theta EXCEPT ![0] = call[0].theta]
    /\ log' = [p \in Procs |-> Append(log[p], "gather")]
    /\ pc' = [p \in Procs |-> "TOMO_STEP"]
    /\ UNCHANGED <<mpi_size, commvars, history,
                   kernel, call, i, x, psi, data, v, h,
                   lamda, hobj, probe, rho, gamma, voxelsize, energy, split,
                   ret, err, ncalls, lastcall>>

\* Line 173: phi = comm.gather(phi, root=0): rank 0 gets the list of every
\* rank's phi in rank order, the others get None (here the empty list).
Gather ==
    /\ \A p \in Procs : pc[p] = "DUAL_TRANSPORT"
    /\ phi' = [p \in Procs |->
                IF p = 0 THEN [r \in 1 .. mpi_size |-> phi[r - 1]] ELSE <<>>]
    /\ log' = [p \in Procs |-> Append(log[p], "gather")]
    /\ pc' = [p \in Procs |-> "TOMO_STEP"]
    /\ UNCHANGED <<mpi_size, commvars, history,
                   kernel, call, i, x, psi, data, theta, v, h,
                   lamda, hobj, probe, rho, gamma, voxelsize, energy, split,
                   ret, err, ncalls, lastcall>>

\* np.concatenate(phi, axis=0) of the gathered list.
RECURSIVE concatenate_list(_)
concatenate_list(l) ==
    IF l = <<>> THEN <<>>
    ELSE concatenate_list(SubSeq(l, 1, Len(l) - 1)) \o l[Len(l)]

\* A worker skipping the broadcast of x that follows the rank-0 branch.
after_tomo_rank_branch(p) == IF p = 0 THEN "BCAST_X" ELSE "MULTIPLIER_UPDATE"

\* Line 183 follows the `if mpi_rank == 0` block on every rank.
after_tomo(p) == "BCAST_X"

\* Lines 175-181: on rank 0 only, one tomography update of x from the
\* gathered phi and the local theta.
TomoStep(p) ==
    /\ pc[p] = "TOMO_STEP"
    /\ IF p = 0
       THEN LET all == concatenate_list(phi[p])
                out == tomo_reconstruct(kernel, x[p], theta[p], all)
            IN  /\ phi' = [phi EXCEPT ![p] = all]
                /\ x' = [x EXCEPT ![p] = out]
                /\ ncalls' = [ncalls EXCEPT ![p].tomo = @ + 1]
                /\ lastcall' = [lastcall EXCEPT ![p].ntheta = Len(theta[p]),
                                                ![p].nphi = Len(all),
                                                ![p].x = out]
       ELSE UNCHANGED <<phi, x, ncalls, lastcall>>
    /\ pc' = [pc EXCEPT ![p] = after_tomo(p)]
    /\ UNCHANGED <<mpi_size, commvars, history,
                   kernel, call, i, psi, data, theta, v, h, lamda,
                   hobj, probe, rho, gamma, voxelsize, energy, split, ret,
                   err, log>>

\* A broadcast that leaves every process with the x it already had.
bcast_x_stale(p) == x[p]

\* A broadcast that, like gather, hands None to the ranks other than root.
bcast_x_root_only(p) == IF p = 0 THEN x[0] ELSE None

\* comm.bcast(x, root=0) as process p receives it: the x of rank 0.
bcast_x(p) == x[0]

\* Line 183: x = comm.bcast(x, root=0).
BcastX ==
    /\ \A p \in Procs : pc[p] = "BCAST_X"
    /\ x' = [p \in Procs |-> bcast_x(p)]
    /\ log' = [p \in Procs |-> Append(log[p], "bcast")]
    /\ pc' = [p \in Procs |-> "MULTIPLIER_UPDATE"]
    /\ UNCHANGED <<mpi_size, commvars, history,
                   kernel, call, i, psi, data, theta, v, h, lamda,
                   hobj, phi, probe, rho, gamma, voxelsize, energy, split,
                   ret, err, ncalls, lastcall>>

\* A multiplier update that forgets the multipliers accumulated so far.
lamda_update_reset(lam, rh, ps, ho) ==
    [n \in 1 .. Len(lam) |-> rh * (ps[n] - ho[n])]

\* A multiplier update with the residual taken the other way round.
lamda_update_swapped(lam, rh, ps, ho) ==
    [n \in 1 .. Len(lam) |-> lam[n] + rh * (ho[n] - ps[n])]

\* Line 187: lamda = lamda + rho * (psi - hobj), elementwise.
lamda_update(lam, rh, ps, ho) ==
    [n \in 1 .. Len(lam) |-> lam[n] + rh * (ps[n] - ho[n])]

\* Lines 185-187: hobj from the forward projection of x, then
\* lamda = lamda + rho * (psi - hobj); then the next iteration or return.
MultiplierUpdate(p) ==
    /\ pc[p] = "MULTIPLIER_UPDATE"
    /\ hobj' = [hobj EXCEPT ![p] =
                    forward_hobj(x[p], theta[p], energy[p], voxelsize[p])]
    /\ lamda' = [lamda EXCEPT ![p] =
                    lamda_update(lamda[p], rho[p], psi[p], hobj'[p])]
    /\ history' = [history EXCEPT ![p] =
                    Append(@, [psi |-> psi[p], hobj |-> hobj'[p]])]
    /\ ncalls' = [ncalls EXCEPT ![p].forward = @ + 1]
    /\ x' = x
    /\ LoopHead(p, i[p] + 1)
    /\ UNCHANGED <<mpi_size, commvars, kernel, call, psi, data, theta, v, h, phi,
                   probe, rho, gamma, voxelsize, energy, split, err, log,
                   lastcall>>

Next ==
    \/ \E p \in Procs : Split(p)
    \/ Scatter
    \/ Bcast
    \/ \E p \in Procs : Scattered(p)
    \/ \E p \in Procs : PtychoStep(p)
    \/ \E p \in Procs : PhiStep(p)
    \/ Gather
    \/ \E p \in Procs : TomoStep(p)
    \/ BcastX
    \/ \E p \in Procs : MultiplierUpdate(p)

Spec == Init /\ [][Next]_vars

\* Every process keeps running its own code, and a collective that every
\* process has reached completes.
ProcStep(p) ==
    \/ Split(p)
    \/ Scattered(p)
    \/ PtychoStep(p)
    \/ PhiStep(p)
    \/ TomoStep(p)
    \/ MultiplierUpdate(p)

Collective == Scatter \/ Bcast \/ Gather \/ BcastX

Fairness ==
    /\ \A p \in 0 .. (MaxProcs - 1) : WF_vars(p \in Procs /\ ProcStep(p))
    /\ WF_vars(Collective)

SameNiter == \A p \in Procs : call[p].niter = call[0].niter

\* admm called with the same niter on every process, run fairly.
InitLockstep == Init /\ \A p \in Procs : call[p].niter = call[0].niter
SpecLockstep == InitLockstep /\ [][Next]_vars /\ Fairness

\* ------------------------------------------------------ MPICommunicator
\* An nr x nc array whose cells are all different.
mk_array(nr, nc) ==
    [nr |-> nr, nc |-> nc,
     rows |-> [r \in 1 .. nr |-> [c \in 1 .. nc |-> (r - 1) * nc + c]]]

\* np.array_split(a, N, axis=0)[r]
split_axis0(a, N, r) ==
    [nr |-> section_size(a.nr, N, r), nc |-> a.nc,
     rows |-> SubSeq(a.rows, div_points(a.nr, N, r) + 1,
                     div_points(a.nr, N, r + 1))]

\* np.array_split(a, N, axis=1)[r]
split_axis1(a, N, r) ==
    [nr |-> a.nr, nc |-> section_size(a.nc, N, r),
     rows |-> [k \in 1 .. a.nr |->
                SubSeq(a.rows[k], div_points(a.nc, N, r) + 1,
                       div_points(a.nc, N, r + 1))]]

\* np.concatenate(l, axis=0) of a list of 2-D arrays; numpy raises
\* ValueError unless every array has the same number of columns.
concat0_ok(l) == \A j \in 1 .. Len(l) : l[j].nc = l[1].nc
RECURSIVE concat_axis0(_)
concat_axis0(l) ==
    IF Len(l) = 1 THEN l[1]
    ELSE LET head == concat_axis0(SubSeq(l, 1, Len(l) - 1))
             last == l[Len(l)]
         IN  [nr |-> head.nr + last.nr, nc |-> head.nc,
              rows |-> head.rows \o last.rows]

\* np.concatenate(l, axis=1); ValueError unless the row counts agree.
concat1_ok(l) == \A j \in 1 .. Len(l) : l[j].nr = l[1].nr
RECURSIVE concat_axis1(_)
concat_axis1(l) ==
    IF Len(l) = 1 THEN l[1]
    ELSE LET head == concat_axis1(SubSeq(l, 1, Len(l) - 1))
             last == l[Len(l)]
         IN  [nr |-> head.nr, nc |-> head.nc + last.nc,
              rows |-> [k \in 1 .. head.nr |-> head.rows[k] \o last.rows[k]]]

\* Lines 53-54: the return value of get_ptycho_slice on rank r, from the
\* allgathered list.
get_ptycho_slice(l, N, r) == split_axis0(concat_axis1(l), N, r)

\* get_tomo_slice picking the slice of the next rank.
get_tomo_slice_next_rank(l, N, r) ==
    split_axis1(concat_axis0(l), N, (r + 1) % N)

\* Lines 59-60: the return value of get_tomo_slice on rank r.
get_tomo_slice(l, N, r) == split_axis1(concat_axis0(l), N, r)

\* admm's variables while the communicator runs on its own.
AdmmIdle ==
    /\ kernel = "echo"
    /\ call = [p \in Procs |-> WorkerArgs(0)]
    /\ pc = [p \in Procs |-> "idle"]
    /\ i = [p \in Procs |-> 0]
    /\ x = [p \in Procs |-> None]
    /\ psi = [p \in Procs |-> <<>>]
    /\ data = [p \in Procs |-> <<>>]
    /\ theta = [p \in Procs |-> <<>>]
    /\ v = [p \in Procs |-> <<>>]
    /\ h = [p \in Procs |-> <<>>]
    /\ lamda = [p \in Procs |-> <<>>]
    /\ hobj = [p \in Procs |-> <<>>]
    /\ phi = [p \in Procs |-> <<>>]
    /\ probe = [p \in Procs |-> 0]
    /\ rho = [p \in Procs |-> 0]
    /\ gamma = [p \in Procs |-> 0]
    /\ voxelsize = [p \in Procs |-> 0]
    /\ energy = [p \in Procs |-> 0]
    /\ split = [p \in Procs |-> NoSplit]
    /\ ret = [p \in Procs |-> None]
    /\ err = [p \in Procs |-> ""]
    /\ log = [p \in Procs |-> <<>>]
    /\ ncalls = [p \in Procs |-> [ptycho |-> 0, tomo |-> 0, forward |-> 0]]
    /\ lastcall = [p \in Procs |-> NoCall]
    /\ history = [p \in Procs |-> <<>>]

\* Every process calls the same method: scatter(*args) with rank 0 passing
\* the full arrays, broadcast(*args) with rank 0 passing the values, or
\* get_tomo_slice(get_ptycho_slice(arg)) with arg the process's part of
\* whole0 as np.array_split cuts it along axis 1.
InitComm ==
    /\ mpi_size \in 1 .. MaxProcs
    /\ AdmmIdle
    /\ method \in {"scatter", "broadcast", "reslice"}
    /\ \E k \in 0 .. MaxArgs, L \in 0 .. MaxViews,
          nr \in 0 .. MaxRows, nc \in 0 .. MaxCols :
        /\ (method # "reslice") => (nr = 0 /\ nc = 0)
        /\ (method = "reslice") => (k = 0 /\ L = 0)
        /\ (method = "broadcast") => (L = 0)
        /\ whole0 = mk_array(nr, nc)
        /\ args = [p \in Procs |->
                    CASE method = "scatter" ->
                            [j \in 1 .. k |-> IF p = 0 THEN arange(L) ELSE <<>>]
                      [] method = "broadcast" ->
                            [j \in 1 .. k |-> IF p = 0 THEN 10 + j ELSE 0]
                      [] OTHER -> split_axis1(whole0, mpi_size, p)]
    /\ cpc = [p \in Procs |-> "call"]
    /\ recv = [p \in Procs |-> <<>>]
    /\ cret = [p \in Procs |-> <<>>]
    /\ cerr = [p \in Procs |-> ""]

\* scatter, broadcast: the head of `for i in range(len(args))` with i = 0:
\* return args when it is empty, else go to the collective of lines 41 / 47
\* (rank 0 cuts args[0] in chunks for scatter, lines 37-40).
\* get_ptycho_slice: go to the allgather of line 52.
Enter(p) ==
    /\ cpc[p] = "call"
    /\ IF method = "reslice"
       THEN /\ cpc' = [cpc EXCEPT ![p] = "ptycho_allgather"]
            /\ cret' = cret
       ELSE IF Len(args[p]) = 0
            THEN /\ cpc' = [cpc EXCEPT ![p] = "returned"]
                 /\ cret' = [cret EXCEPT ![p] = args[p]]
            ELSE /\ cpc' = [cpc EXCEPT ![p] = "collective"]
                 /\ cret' = cret
    /\ UNCHANGED <<mpi_size, admmvars, method, whole0, args, recv, cerr>>

\* Line 41: self.comm.scatter(chunks, root=0) of rank 0's chunks of args[0].
CommScatter ==
    /\ method = "scatter"
    /\ \A p \in Procs : cpc[p] = "collective"
    /\ recv' = [p \in Procs |-> array_split(args[0][1], mpi_size)[p]]
    /\ cpc' = [p \in Procs |-> "assign"]
    /\ UNCHANGED <<mpi_size, admmvars, method, whole0, args, cret, cerr>>

\* Line 47: self.comm.bcast(args[0], root=0).
CommBcast ==
    /\ method = "broadcast"
    /\ \A p \in Procs : cpc[p] = "collective"
    /\ recv' = [p \in Procs |-> args[0][1]]
    /\ cpc' = [p \in Procs |-> "assign"]
    /\ UNCHANGED <<mpi_size, admmvars, method, whole0, args, cret, cerr>>

\* Lines 41 / 47, the assignment `args[i] = ...`: args is the tuple of the
\* *args parameters, and a tuple does not support item assignment:
\* TypeError, raised out of the method.
Assign(p) ==
    /\ cpc[p] = "assign"
    /\ cerr' = [cerr EXCEPT ![p] = "TypeError"]
    /\ cpc' = [cpc EXCEPT ![p] = "raised"]
    /\ UNCHANGED <<mpi_size, admmvars, method, whole0, args, recv, cret>>

\* Line 52: arg = self.comm.allgather(arg): every rank's arg, in rank order.
PtychoAllgather ==
    /\ \A p \in Procs : cpc[p] = "ptycho_allgather"
    /\ recv' = [p \in Procs |-> [r \in 1 .. mpi_size |-> args[r - 1]]]
    /\ cpc' = [p \in Procs |-> "ptycho_slice"]
    /\ UNCHANGED <<mpi_size, admmvars, method, whole0, args, cret, cerr>>

\* Lines 53-54, then the call of get_tomo_slice on the result.
PtychoSlice(p) ==
    /\ cpc[p] = "ptycho_slice"
    /\ IF concat1_ok(recv[p])
       THEN /\ cret' = [cret EXCEPT ![p] =
                            get_ptycho_slice(recv[p], mpi_size, p)]
            /\ cpc' = [cpc EXCEPT ![p] = "tomo_allgather"]
            /\ cerr' = cerr
       ELSE /\ cerr' = [cerr EXCEPT ![p] = "ValueError"]
            /\ cpc' = [cpc EXCEPT ![p] = "raised"]
            /\ cret' = cret
    /\ UNCHANGED <<mpi_size, admmvars, method, whole0, args, recv>>

\* Line 58: arg = self.comm.allgather(arg) of the ptychography slices.
TomoAllgather ==
    /\ \A p \in Procs : cpc[p] = "tomo_allgather"
    /\ recv' = [p \in Procs |-> [r \in 1 .. mpi_size |-> cret[r - 1]]]
    /\ cpc' = [p \in Procs |-> "tomo_slice"]
    /\ UNCHANGED <<mpi_size, admmvars, method, whole0, args, cret, cerr>>

\* Lines 59-60.
TomoSlice(p) ==
    /\ cpc[p] = "tomo_slice"
    /\ IF concat0_ok(recv[p])
       THEN /\ cret' = [cret EXCEPT ![p] =
                            get_tomo_slice(recv[p], mpi_size, p)]
            /\ cpc' = [cpc EXCEPT ![p] = "returned"]
            /\ cerr' = cerr
       ELSE /\ cerr' = [cerr EXCEPT ![p] = "ValueError"]
            /\ cpc' = [cpc EXCEPT ![p] = "raised"]
            /\ cret' = cret
    /\ UNCHANGED <<mpi_size, admmvars, method, whole0, args, recv>>

NextComm ==
    \/ \E p \in Procs : Enter(p)
    \/ CommScatter
    \/ CommBcast
    \/ \E p \in Procs : Assign(p)
    \/ PtychoAllgather
    \/ \E p \in Procs : PtychoSlice(p)
    \/ TomoAllgather
    \/ \E p \in Procs : TomoSlice(p)

SpecComm == InitComm /\ [][NextComm]_vars

\* admm and the communicator side by side: a run of either.
InitAll == Init \/ InitComm
NextAll == Next \/ NextComm
SpecAll == InitAll /\ [][NextAll]_vars

\* ------------------------------------------------------------ properties
Finished(p) == cpc[p] \in {"returned", "raised"}

\* C1: after scatter(A), with 1 <= N <= L for the leading-axis length L of
\* A, every process holds exactly one chunk of A and the chunks of ranks
\* 0..N-1 concatenated in rank order are A.
C1_ScatterRoundTrip ==
    (/\ method = "scatter"
     /\ Len(args[0]) >= 1
     /\ \A p \in Procs : Finished(p))
    => (mpi_size <= Len(args[0][1])
        => /\ \A p \in Procs : cerr[p] = "" /\ Len(cret[p]) = Len(args[0])
           /\ concatenate_list([r \in 1 .. mpi_size |-> cret[r - 1][1]])
                = args[0][1])

\* C2: when every process calls get_ptycho_slice on its axis-1 part of a
\* global array and then get_tomo_slice on the result, process r gets its
\* original part back.
C2_ResliceInverse ==
    \A p \in Procs :
        (method = "reslice" /\ Finished(p))
        => (cerr[p] = "" /\ cret[p] = args[p])

C2_Witness ==
    /\ method = "reslice"
    /\ mpi_size = 2
    /\ whole0.nr = 3 /\ whole0.nc = 3
    /\ \A p \in Procs : cpc[p] = "returned"
    /\ cret[0].nc = 2 /\ cret[1].nc = 1

\* C3: after broadcast(v1, ..., vk), on every process the i-th returned
\* value is the value rank 0 passed as its i-th argument.
C3_BroadcastIdentity ==
    (method = "broadcast" /\ \A p \in Procs : Finished(p))
    => \A p \in Procs : cerr[p] = "" /\ cret[p] = args[0]

\* C4: after setup, probe, voxelsize, energy, rho and gamma on every process
\* are the values rank 0 was called with, for the rest of the run, and the
\* gamma handed to the ptychography solver is rank 0's gamma.
SetupDone(p) == pc[p] \notin {"INIT", "scatter", "bcast"}

C4_SharedScalars ==
    \A p \in Procs :
        SetupDone(p)
        => /\ probe[p] = call[0].probe
           /\ voxelsize[p] = call[0].voxelsize
           /\ energy[p] = call[0].energy
           /\ rho[p] = call[0].rho
           /\ gamma[p] = call[0].gamma
           /\ lastcall[p].gamma \in {None, call[0].gamma}

\* C5 as stated: niter is broadcast, so every process that returns has run
\* the loop rank 0's niter times.
C5_RootNiterEverywhere ==
    \A p \in Procs : pc[p] = "DONE" => i[p] = call[0].niter

AtCollective(p) == pc[p] \in {"scatter", "bcast", "DUAL_TRANSPORT", "BCAST_X"}
\* C5 (amended): every process runs the loop the niter times it was itself
\* called with (niter is not broadcast), and when all processes were called
\* with the same niter no process waits at a collective that a returned
\* process never reaches.
C5_OwnNiter ==
    /\ \A p \in Procs :
        /\ i[p] <= call[p].niter
        /\ pc[p] = "DONE" => i[p] = call[p].niter
    /\ SameNiter
        => \A p, q \in Procs : ~(AtCollective(p) /\ pc[q] = "DONE")

C5_Witness ==
    \E p, q \in Procs :
        /\ call[q].niter = 0 /\ call[p].niter = 2
        /\ pc[q] = "DONE" /\ i[q] = 0
        /\ pc[p] = "DUAL_TRANSPORT"

\* ---- C6
AllDone == \A p \in Procs : pc[p] = "DONE"

\* The collective calls of a whole run of n iterations.
RECURSIVE IterationCalls(_)
IterationCalls(n) ==
    IF n = 0 THEN <<>> ELSE IterationCalls(n - 1) \o <<"gather", "bcast">>
ExpectedLog(n) ==
    <<"scatter", "scatter", "scatter", "scatter", "scatter",
      "bcast", "bcast", "bcast", "bcast", "bcast">> \o IterationCalls(n)

\* data, v and h have at least one entry for every view of theta.
EnoughViews ==
    /\ Len(call[0].data) >= Len(call[0].theta)
    /\ Len(call[0].v) >= Len(call[0].theta)
    /\ Len(call[0].h) >= Len(call[0].theta)

Edge(a, b, n, m, niter) ==
    \/ a = "INIT" /\ b = "scatter" /\ m = n
    \/ a = "scatter" /\ b = "bcast" /\ m = n
    \/ a = "bcast" /\ b = "SCATTERED" /\ m = n
    \/ a = "SCATTERED" /\ b = "PTYCHO_STEP" /\ n = 0 /\ m = 0 /\ niter > 0
    \/ a = "SCATTERED" /\ b = "DONE" /\ n = 0 /\ m = 0 /\ niter = 0
    \/ a = "PTYCHO_STEP" /\ b = "PHI" /\ m = n
    \/ a = "PTYCHO_STEP" /\ b = "RAISED" /\ m = n
    \/ a = "PHI" /\ b = "DUAL_TRANSPORT" /\ m = n
    \/ a = "DUAL_TRANSPORT" /\ b = "TOMO_STEP" /\ m = n
    \/ a = "TOMO_STEP" /\ b = "BCAST_X" /\ m = n
    \/ a = "BCAST_X" /\ b = "MULTIPLIER_UPDATE" /\ m = n
    \/ a = "MULTIPLIER_UPDATE" /\ b = "PTYCHO_STEP" /\ m = n + 1 /\ m < niter
    \/ a = "MULTIPLIER_UPDATE" /\ b = "DONE" /\ m = n + 1 /\ m = niter

\* C7: every process goes INIT -> SCATTERED once, then through the
\* iterations, each in the order PTYCHO_STEP, phi, DUAL_TRANSPORT,
\* TOMO_STEP, broadcast of x, MULTIPLIER_UPDATE, the loop variable advancing
\* only at the end of MULTIPLIER_UPDATE, and reaches DONE only after exactly
\* niter iterations (a process leaves this order only by raising).
C7_StateMachine ==
    [][\A p \in Procs :
        /\ (pc'[p] # pc[p] \/ i'[p] # i[p])
            => Edge(pc[p], pc'[p], i[p], i'[p], call[p].niter)
        /\ pc'[p] = "DONE" => i'[p] = call[p].niter]_vars

C7_Witness ==
    /\ mpi_size = 2
    /\ call[0].niter = 2 /\ call[1].niter = 2
    /\ pc[0] = "DONE" /\ i[0] = 2
    /\ pc[1] = "MULTIPLIER_UPDATE" /\ i[1] = 1
    /\ ncalls[0].forward = 2

\* ---- C8
\* C8: with niter = 0 admm does the setup only (no kernel call, no gather)
\* and returns on rank 0 an x equal to the initial obj.
C8_ZeroIterations ==
    (pc[0] = "DONE" /\ call[0].niter = 0)
    => /\ ret[0] = call[0].obj
       /\ ncalls[0] = [ptycho |-> 0, tomo |-> 0, forward |-> 0]
       /\ log[0] = ExpectedLog(0)

C8_Witness ==
    /\ mpi_size = 2
    /\ call[0].niter = 0
    /\ pc[0] = "DONE"
    /\ Len(call[0].theta) = 3
    /\ ret[0] = 1

\* ---- C9
SameViews ==
    /\ Len(call[0].data) = Len(call[0].theta)
    /\ Len(call[0].v) = Len(call[0].theta)
    /\ Len(call[0].h) = Len(call[0].theta)

\* C9: when the global data, theta, v and h have the same number of views,
\* on every process from the end of setup on, theta, v, h, psi and data
\* have the same length.
C9_LengthInvariant ==
    SameViews
    => \A p \in Procs :
        SetupDone(p)
        => /\ Len(theta[p]) = Len(v[p])
           /\ Len(v[p]) = Len(h[p])
           /\ Len(h[p]) = Len(psi[p])
           /\ Len(psi[p]) = Len(data[p])

C9_Witness ==
    /\ SameViews
    /\ mpi_size = 2
    /\ Len(call[0].theta) = 3
    /\ pc[0] = "MULTIPLIER_UPDATE" /\ i[0] = 1
    /\ Len(psi[0]) = 2 /\ Len(data[1]) = 1

\* ---- C10
HoldsChunks(p) == pc[p] \notin {"idle", "INIT", "scatter"}
PtychoSliced(p) ==
    method = "reslice" /\ cpc[p] \in {"tomo_allgather", "tomo_slice"}
TomoSliced(p) == method = "reslice" /\ cpc[p] = "returned"
ScatterReceived(p) == method = "scatter" /\ cpc[p] \in {"assign", "raised"}

C11_ShapeMismatchError ==
    ~SameViews
    => \A p \in Procs :
           /\ SetupDone(p) => err[p] = "ShapeMismatchError"
           /\ ncalls[p] = [ptycho |-> 0, tomo |-> 0, forward |-> 0]

\* The chunk of rank r when a length-L leading axis is cut for N ranks:
\* L \div N elements each, one more on the first L % N ranks, contiguous in
\* rank order.
uneven_chunk(ary, N, r) ==
    LET L == Len(ary)
        start == r * (L \div N) + Min(r, L % N)
        len == (L \div N) + (IF r < L % N THEN 1 ELSE 0)
    IN  SubSeq(ary, start + 1, start + len)

\* C12: when L is not divisible by N, scatter still delivers N contiguous
\* chunks in rank order whose lengths differ by at most one, the first
\* L mod N ranks holding the extra element; admm's setup scatter holds
\* them after setup and MPICommunicator.scatter returns them.
C12_UnevenScatter ==
    \A p \in Procs :
        /\ (HoldsChunks(p) /\ Len(call[0].theta) % mpi_size # 0)
            => theta[p] = uneven_chunk(call[0].theta, mpi_size, p)
        /\ (HoldsChunks(p) /\ Len(call[0].data) % mpi_size # 0)
            => data[p] = uneven_chunk(call[0].data, mpi_size, p)
        /\ (/\ method = "scatter"
            /\ Finished(p)
            /\ Len(args[0]) >= 1
            /\ Len(args[0][1]) % mpi_size # 0)
            => /\ cerr[p] = ""
               /\ cret[p][1] = uneven_chunk(args[0][1], mpi_size, p)

\* The sum over the recorded lamda updates hs of rho * (psi - hobj) at
\* view n.
RECURSIVE multiplier_sum(_, _, _)
multiplier_sum(hs, rh, n) ==
    IF hs = <<>> THEN 0
    ELSE multiplier_sum(SubSeq(hs, 1, Len(hs) - 1), rh, n)
            + rh * (hs[Len(hs)].psi[n] - hs[Len(hs)].hobj[n])

\* The call of the scenario: one process, three views in each array, two
\* iterations, the default rho and gamma (rho counts halves and gamma
\* quarters, so both defaults are 1) and solvers that return their input.
Scenario ==
    /\ mpi_size = 1
    /\ kernel = "echo"
    /\ Len(call[0].theta) = 3
    /\ SameViews
    /\ call[0].niter = 2
    /\ call[0].rho = 1
    /\ call[0].gamma = 1

\* C13: with one process, three views, niter = 2, the default rho and gamma
\* and solvers that return their psi / obj input unchanged, admm returns
\* after exactly two iterations, returns x equal to the initial object, and
\* ends with lamda equal to the sum over the two iterations of
\* rho * (ones - hobj of that iteration).
C13_ConcreteScenario ==
    (Scenario /\ pc[0] = "DONE")
    => /\ err[0] = ""
       /\ i[0] = 2
       /\ ncalls[0] = [ptycho |-> 6, tomo |-> 2, forward |-> 2]
       /\ ret[0] = call[0].obj
       /\ x[0] = call[0].obj
       /\ Len(history[0]) = 2
       /\ lamda[0] = [n \in 1 .. 3 |->
                        call[0].rho * (1 - history[0][1].hobj[n])
                        + call[0].rho * (1 - history[0][2].hobj[n])]

C13_Witness ==
    /\ Scenario
    /\ pc[0] = "DONE"
    /\ ret[0] = 1
    /\ \E n \in 1 .. 3 : lamda[0][n] # 0

\* C14: lamda starts as zeros, is changed only by the multiplier update
\* and is never reset: after k iterations it is the sum over those
\* iterations of rho * (psi - hobj), with the psi and hobj each iteration
\* had at its update.
C14_MultiplierAccumulation ==
    /\ [](\A p \in Procs :
            HoldsChunks(p)
            => /\ Len(history[p]) = i[p]
               /\ lamda[p] = [n \in 1 .. Len(psi[p]) |->
                                multiplier_sum(history[p], rho[p], n)])
    /\ [][\A p \in Procs :
            lamda'[p] # lamda[p]
            => \/ pc[p] = "MULTIPLIER_UPDATE"
               \/ pc[p] = "scatter" /\ lamda'[p] = zeros(Len(psi'[p]))]_vars

C14_Witness ==
    /\ mpi_size = 2
    /\ kernel = "grad"
    /\ \E p \in Procs :
        /\ Len(history[p]) = 2
        /\ history[p][1] # history[p][2]
        /\ \E n \in 1 .. Len(lamda[p]) : lamda[p][n] # 0

\* The phi process p produced in line 171, or on rank 0 handed to the
\* tomography solver in lines 176-181, is held at these positions.
HoldsPhi(p) == pc[p] = "DUAL_TRANSPORT" \/ (p = 0 /\ pc[p] = "BCAST_X")

\* C15: with rho = 0 the multiplier update is a no-op, so lamda stays
\* zeros, and the division lamda / rho of the phi computation is guarded:
\* no undefined value is produced or handed to the tomography solver.
C15_RhoZeroGuarded ==
    \A p \in Procs :
        (SetupDone(p) /\ rho[p] = 0)
        => /\ lamda[p] = zeros(Len(psi[p]))
           /\ HoldsPhi(p) => \A n \in 1 .. Len(phi[p]) : ~phi[p][n].nan

\* C17: in every tomography step, whatever the number of processes, the
\* theta handed to the tomography solver has exactly one angle for each
\* view of the line_integrals handed to it.
C17_TomoInputsAgree ==
    \A p \in Procs :
        lastcall[p].nphi # None => lastcall[p].ntheta = lastcall[p].nphi

\* C16: after the broadcast that ends the tomography step of an iteration,
\* every process's x is the x rank 0 obtained from that iteration's
\* tomography solve, so every process's multiplier update uses the same x;
\* once the initial x is set, x changes only in the tomography step on
\* rank 0 and in the broadcast that follows it.
C16_XAgreement ==
    /\ [](\A p \in Procs :
            pc[p] = "MULTIPLIER_UPDATE"
            => x[p] = lastcall[0].x /\ x[p] = x[0])
    /\ [][\A p \in Procs :
            x'[p] # x[p]
            => \/ pc[p] = "INIT"
               \/ pc[p] = "TOMO_STEP" /\ p = 0
               \/ pc[p] = "BCAST_X" /\ x'[p] = x[0]]_vars

C16_Witness ==
    /\ mpi_size = 2
    /\ kernel = "grad"
    /\ pc[1] = "MULTIPLIER_UPDATE"
    /\ pc[0] = "PTYCHO_STEP"
    /\ i[0] = 1 /\ i[1] = 0
    /\ x[1] = lastcall[0].x
    /\ x[1] # call[0].obj

\* Every order in which n views can be processed.
view_orders(n) ==
    {o \in [1 .. n -> 1 .. n] : \A a, b \in 1 .. n : o[a] = o[b] => a = b}

\* C18: with a pure ptychography solver, the psi a process holds after the
\* ptychography step is the same for every order in which its local views
\* are processed; each psi[view] is the solver's result for that view's
\* data, v, h, psi, hobj and lamda and the shared probe, rho and gamma
\* alone; and the step changes nothing but psi.
C18_ViewIndependence ==
    [][\A p \in Procs :
        (pc[p] = "PTYCHO_STEP" /\ pc'[p] = "PHI")
        => /\ \A o \in view_orders(Len(psi[p])) :
                psi'[p] = ptycho_views(p, psi[p], o)
           /\ \A n \in 1 .. Len(psi[p]) :
                psi'[p][n] = ptycho_reconstruct(kernel, data[p][n],
                                 probe[p], v[p][n], h[p][n], psi[p][n],
                                 rho[p], gamma[p], hobj[p][n], lamda[p][n])
           /\ <<x, data, theta, v, h, lamda, hobj, phi, probe, rho, gamma,
                voxelsize, energy>>'
                = <<x, data, theta, v, h, lamda, hobj, phi, probe, rho,
                    gamma, voxelsize, energy>>
           /\ \A q \in Procs \ {p} : psi'[q] = psi[q]]_vars

C18_Witness ==
    /\ kernel = "grad"
    /\ \E p \in Procs :
        /\ pc[p] = "PHI"
        /\ i[p] = 1
        /\ Len(psi[p]) >= 2
        /\ psi[p][1] # psi[p][2]

\* C19: once a process holds its chunks, its local data, theta, v and h
\* are never modified by any step up to its return, and its partition
\* (these and its psi, lamda and hobj) is written by no step of another
\* process.
C19_ReadOnlyPartitions ==
    [][\A p \in Procs :
        HoldsChunks(p)
        => /\ data'[p] = data[p]
           /\ theta'[p] = theta[p]
           /\ v'[p] = v[p]
           /\ h'[p] = h[p]
           /\ pc'[p] = pc[p]
                => psi'[p] = psi[p] /\ lamda'[p] = lamda[p]
                   /\ hobj'[p] = hobj[p]]_vars

C19_Witness ==
    /\ mpi_size = 2
    /\ kernel = "grad"
    /\ call[0].niter = 2
    /\ AllDone
    /\ \A p \in Procs :
        /\ Len(data[p]) >= 1
        /\ data[p] = uneven_chunk(call[0].data, mpi_size, p)
        /\ theta[p] = uneven_chunk(call[0].theta, mpi_size, p)
        /\ psi[p] # ones(Len(psi[p]))

\* C20: for every niter >= 0 and every number of processes, the value
\* admm returns on a process other than rank 0 equals the value it
\* returns on rank 0.
C20_SameResultEverywhere ==
    \A p \in Procs :
        (pc[p] = "DONE" /\ pc[0] = "DONE") => ret[p] = ret[0]

\* C20 (amended): when rank 0 and another process both return and
\* niter >= 1, both return the x of rank 0's last tomography solve; with
\* niter = 0, rank 0 returns its initial obj and every other process
\* returns None.
C20_SameResultAfterIterations ==
    \A p \in Procs :
        /\ (pc[p] = "DONE" /\ pc[0] = "DONE" /\ call[0].niter >= 1)
            => ret[p] = ret[0] /\ ret[p] = lastcall[0].x
        /\ (pc[p] = "DONE" /\ p # 0 /\ call[p].niter = 0) => ret[p] = None
        /\ (pc[0] = "DONE" /\ call[0].niter = 0) => ret[0] = call[0].obj

C20_Witness ==
    /\ mpi_size = 2
    /\ kernel = "grad"
    /\ AllDone
    /\ call[0].niter = 2
    /\ ret[1] = ret[0]
    /\ ret[1] # None
====
